---- MODULE Spec2Model ----
(***************************************************************************)
(* Model of src/github-pr-review-agent.py: class GitHubPRReviewAgent       *)
(* (get_pr_details, review_pull_request, post_review_comment) and the      *)
(* part of main that drives one review (lines 189-197).                    *)
(*                                                                         *)
(* Texts are sequences of atoms (TLA+ strings).  A literal of the source   *)
(* is one atom; text that comes from the host or from the completion       *)
(* service is a sequence of atoms.  Python values are pairs <<type, value>> *)
(* so that values of different Python types can be told apart.             *)
(*                                                                         *)
(* Init is the state after the agent object exists.  The module namespace  *)
(* (the names `repo` and `pr_name` that line 81 reads as globals) is bound *)
(* by nothing in this file; whether the loader of the module bound them is *)
(* part of the initial state.  The constructor (lines 15-72) and the       *)
(* construction of the model and the agent in main (lines 176-187) are     *)
(* not modelled.                                                           *)
(***************************************************************************)
EXTENDS Integers, Sequences, FiniteSets, TLC

\* ------------------------------------------------------------------ bounds
MaxFiles == 2
MaxUpdates == 1
MaxEntries == 2

\* ----------------------------------------------------------- Python values
PyStr(s) == <<"str", s>>
PyNone == <<"NoneType", <<>>>>
PyInt(n) == <<"int", n>>
PyBool(b) == <<"bool", b>>
PyList(xs) == <<"list", xs>>
PyDict(items) == <<"dict", items>>

TypeOf(x) == x[1]
ValueOf(x) == x[2]

\* an item of a dict: its key and its value
Item(key, val) == <<key, val>>
KeyOf(item) == item[1]
ValOf(item) == item[2]

\* No value at all (a local name before it is assigned).
Unset == <<"unset", <<>>>>

RECURSIVE Flatten(_)
Flatten(ss) == IF ss = <<>> THEN <<>> ELSE Head(ss) \o Flatten(Tail(ss))

\* sep.join(parts), parts a sequence of texts
RECURSIVE Join(_, _)
Join(sep, parts) ==
    IF parts = <<>> THEN <<>>
    ELSE IF Len(parts) = 1 THEN parts[1]
    ELSE parts[1] \o sep \o Join(sep, Tail(parts))

\* repr(x) and str(x) of the values the model holds
RECURSIVE Repr(_)
Repr(x) ==
    CASE TypeOf(x) = "str" -> <<"'">> \o ValueOf(x) \o <<"'">>
      [] TypeOf(x) = "NoneType" -> <<"None">>
      [] TypeOf(x) = "int" -> <<ToString(ValueOf(x))>>
      [] TypeOf(x) = "bool" -> IF ValueOf(x) THEN <<"True">> ELSE <<"False">>
      [] TypeOf(x) = "list" ->
            <<"[">> \o Join(<<", ">>, [i \in 1..Len(ValueOf(x)) |-> Repr(ValueOf(x)[i])]) \o <<"]">>
      [] TypeOf(x) = "dict" ->
            <<"{">> \o Join(<<", ">>, [i \in 1..Len(ValueOf(x)) |->
                     Repr(PyStr(KeyOf(ValueOf(x)[i]))) \o <<": ">> \o Repr(ValOf(ValueOf(x)[i]))]) \o <<"}">>

\* what an f-string writes for {x}
Format(x) == IF TypeOf(x) = "str" THEN ValueOf(x) ELSE Repr(x)

\* truth value of x (`x or default`)
Truthy(x) ==
    CASE TypeOf(x) = "NoneType" -> FALSE
      [] TypeOf(x) = "bool" -> ValueOf(x)
      [] TypeOf(x) = "int" -> ValueOf(x) # 0
      [] OTHER -> ValueOf(x) # <<>>

\* ------------------------------------------------------------------- host
\* The files the host can list for the pull request.  A file object of the
\* host has a patch attribute holding text, a patch attribute holding None
\* (the host sent no diff: binary or rename-only change), or, for a host
\* object without the attribute, no patch attribute at all.
PatchKinds == <<"text", "none", "missing">>

HostFile(i) ==
    LET kind == PatchKinds[((i - 1) % 3) + 1]
        base == [filename |-> <<"f", ToString(i), ".py">>,
                 status |-> IF i % 2 = 1 THEN <<"modified">> ELSE <<"added">>]
    IN CASE kind = "text" -> base @@ [patch |-> PyStr(<<"@@ -1 +1 @@ ", ToString(i)>>)]
         [] kind = "none" -> base @@ [patch |-> PyNone]
         [] kind = "missing" -> base

FileIds == 1..Len(PatchKinds)

\* Listings: sequences of distinct files, at most MaxFiles long, in any order.
RECURSIVE SeqsUpTo(_, _)
SeqsUpTo(S, n) ==
    IF n = 0 THEN {<<>>}
    ELSE LET shorter == SeqsUpTo(S, n - 1)
         IN shorter \cup {Append(s, x) : s \in {q \in shorter : Len(q) = n - 1}, x \in S}

Distinct(s) == \A i, j \in 1..Len(s) : i # j => s[i] # s[j]

Listings ==
    {[i \in 1..Len(ids) |-> HostFile(ids[i])] :
        ids \in {s \in SeqsUpTo(FileIds, MaxFiles) : Distinct(s)}}

Reviews == {1, 2}
PrNumber(r) == 41 + r
KnownPRs == {PrNumber(r) : r \in Reviews}
UnknownPRs == {7}

\* ------------------------------------------------------------------ state
VARIABLES
    globals,        \* module namespace: the ambient names line 81 reads
    hostBody,       \* pr.body on the host
    hostFiles,      \* what pr.get_files() lists now
    updates,        \* pushes to the pull request so far
    active,         \* the reviews that were invoked
    pc,             \* stage of each review
    line,           \* source line the review is at, inside its stage
    failedFrom,     \* stage in which the exception was raised
    exc,            \* the exception
    pr,             \* get_pr_details: local pr
    changed_files,  \* get_pr_details: local changed_files
    listed1,        \* what the first pr.get_files() returned
    listed2,        \* what the second pr.get_files() returned
    pr_details,     \* review_pull_request: local pr_details
    prompt,         \* the messages handed to self.llm
    review_str,     \* review_pull_request: local review_str
    review_dict,    \* review_pull_request: local review_dict, then main's review_result
    comment,        \* post_review_comment: local comment
    comments        \* comments posted on the host

vars == <<globals, hostBody, hostFiles, updates, active, pc, line, failedFrom, exc,
          pr, changed_files, listed1, listed2, pr_details, prompt, review_str,
          review_dict, comment, comments>>

hostVars == <<globals, hostBody, hostFiles, updates, active>>
fetchVars == <<pr, changed_files, listed1, listed2, pr_details>>
reviewVars == <<prompt, review_str, review_dict, comment>>

\* The pull request object of the host: its attributes as PyGithub caches them.
HostPull(body) ==
    [title |-> PyStr(<<"Fix off-by-one">>),
     body |-> body,
     login |-> PyStr(<<"octocat">>),
     state |-> PyStr(<<"open">>),
     base |-> PyStr(<<"main">>),
     head |-> PyStr(<<"fix">>)]

Bodies == {PyNone, PyStr(<<>>), PyStr(<<"Fixes the loop bound">>)}

\* A faulty variant of Raise: a handler that reports the failure as a comment on the
\* pull request.
RaiseAndReport(r, stage, e) ==
    /\ pc' = [pc EXCEPT ![r] = "Failed"]
    /\ failedFrom' = [failedFrom EXCEPT ![r] = stage]
    /\ exc' = [exc EXCEPT ![r] = e]
    /\ comments' = Append(comments, <<"Review failed: ", e>>)

\* An exception leaves the method and main (no try/except around lines 189-197):
\* the review ends, and nothing is posted.
Raise(r, stage, e) ==
    /\ pc' = [pc EXCEPT ![r] = "Failed"]
    /\ failedFrom' = [failedFrom EXCEPT ![r] = stage]
    /\ exc' = [exc EXCEPT ![r] = e]
    /\ comments' = comments

Goto(r, stage, l) ==
    /\ pc' = [pc EXCEPT ![r] = stage]
    /\ line' = [line EXCEPT ![r] = l]
    /\ UNCHANGED <<failedFrom, exc, comments>>

\* A faulty variant of SetLocal: the name is an attribute of self, which every
\* invocation on the agent shares.
SetShared(f, r, val) == [q \in DOMAIN f |-> val]

\* Assignment to a local name of invocation r: every call of a method has
\* its own frame (pr, changed_files, pr_details, review_str, review_dict, comment).
SetLocal(f, r, val) == [f EXCEPT ![r] = val]

\* --------------------------------------------------------- get_pr_details
\* line 81: pr = repo.get_pull(pr_name), both names looked up as globals
GetPull(r) ==
    /\ r \in active /\ pc[r] = "Fetching" /\ line[r] = 81
    /\ IF "repo" \notin DOMAIN globals \/ "pr_name" \notin DOMAIN globals
       THEN /\ Raise(r, "Fetching", "NameError")
            /\ UNCHANGED <<line, pr>>
       ELSE IF globals["pr_name"] \notin KnownPRs
       THEN /\ Raise(r, "Fetching", "UnknownObjectException")
            /\ UNCHANGED <<line, pr>>
       ELSE /\ pr' = SetLocal(pr, r, HostPull(hostBody))
            /\ Goto(r, "Fetching", 84)
    /\ UNCHANGED <<hostVars, changed_files, listed1, listed2, pr_details, reviewVars>>

\* line 84: changed_files = [f.filename for f in pr.get_files()]
FileNames(files) == [i \in 1..Len(files) |-> files[i].filename]

ListChangedFiles(r) ==
    /\ r \in active /\ pc[r] = "Fetching" /\ line[r] = 84
    /\ listed1' = [listed1 EXCEPT ![r] = hostFiles]
    /\ changed_files' = SetLocal(changed_files, r, FileNames(hostFiles))
    /\ Goto(r, "Fetching", 88)
    /\ UNCHANGED <<hostVars, pr, listed2, pr_details, reviewVars>>

\* line 89: patch = file.patch if hasattr(file, 'patch') else "No patch available"
PatchOf(file) ==
    IF "patch" \in DOMAIN file THEN file.patch ELSE PyStr(<<"No patch available">>)

\* line 90: f"File: {file.filename}\nStatus: {file.status}\nPatch:\n{patch}"
FileBlock(file) ==
    <<"File: ">> \o file.filename \o <<"\nStatus: ">> \o file.status
        \o <<"\nPatch:\n">> \o Format(PatchOf(file))

\* A faulty variant of FilePatches: the blocks joined by a single newline.
FilePatchesNewline(files) == Join(<<"\n">>, [i \in 1..Len(files) |-> FileBlock(files[i])])

\* lines 87-90 and 100: '\n\n'.join(file_patches)
FilePatches(files) == Join(<<"\n\n">>, [i \in 1..Len(files) |-> FileBlock(files[i])])

\* line 94: pr.body or "No description provided"
Description(body) == IF Truthy(body) THEN body ELSE PyStr(<<"No description provided">>)

\* lines 92-101: the dictionary get_pr_details returns
PrDetails(p, names, files) ==
    [title |-> p.title,
     description |-> Description(p.body),
     author |-> p.login,
     state |-> p.state,
     base_branch |-> p.base,
     head_branch |-> p.head,
     changed_files |-> names,
     file_patches |-> FilePatches(files)]

\* lines 87-101: the second listing, the patches, the returned dictionary
ListFilePatches(r) ==
    /\ r \in active /\ pc[r] = "Fetching" /\ line[r] = 88
    /\ listed2' = [listed2 EXCEPT ![r] = hostFiles]
    /\ pr_details' = SetLocal(pr_details, r, PrDetails(pr[r], changed_files[r], hostFiles))
    /\ Goto(r, "Prompting", 114)
    /\ UNCHANGED <<hostVars, pr, changed_files, listed1, reviewVars>>

\* A call to the host fails (network, rate limit): lines 84 and 88, and line 148.
HostCallFails(r) ==
    /\ r \in active
    /\ <<pc[r], line[r]>> \in {<<"Fetching", 84>>, <<"Fetching", 88>>, <<"Rendering", 148>>}
    /\ Raise(r, pc[r], "GithubException")
    /\ UNCHANGED <<hostVars, line, fetchVars, reviewVars>>

\* The pull request is pushed to while a review reads it (nothing reads the
\* host's files after line 88, so later pushes change no review).
HostUpdate ==
    /\ updates < MaxUpdates
    /\ \E r \in active : pc[r] = "Fetching"
    /\ updates' = updates + 1
    /\ hostFiles' \in Listings \ {hostFiles}
    /\ UNCHANGED <<globals, hostBody, active, pc, line, failedFrom, exc, comments,
                   fetchVars, reviewVars>>

\* ---------------------------------------------------- review_pull_request
\* d[k] on the dictionary get_pr_details returned
HasKey(d, k) == k \in DOMAIN d

\* lines 115-121: the keys the five lambdas read
PromptKeys ==
    [pr_title |-> "title",
     pr_description |-> "description",
     pr_author |-> "bug",
     changed_files |-> "changed_files",
     code_patches |-> "file_patches"]

\* lines 116-120: the values RunnablePassthrough.assign computes
PromptInput(d, keys) ==
    [pr_title |-> d[keys.pr_title],
     pr_description |-> d[keys.pr_description],
     pr_author |-> d[keys.pr_author],
     changed_files |-> Join(<<", ">>, d[keys.changed_files]),
     code_patches |-> d[keys.code_patches]]

\* lines 45-71: the human message with its five placeholders filled
FormatPrompt(x) ==
    <<"system: You are an expert code review AI assistant.">>
    \o <<"human: Perform a comprehensive code review for this Pull Request:",
         "\nTitle: ">> \o Format(x.pr_title)
    \o <<"\nDescription: ">> \o Format(x.pr_description)
    \o <<"\nAuthor: ">> \o Format(x.pr_author)
    \o <<"\nFiles Changed: ">> \o x.changed_files
    \o <<"\n\nCode Changes:\n">> \o x.code_patches
    \o <<"\nRespond in a structured valid JSON format">>

\* lines 114-122 and the first two stages of review_chain.invoke({})
Prompt(r) ==
    /\ r \in active /\ pc[r] = "Prompting" /\ line[r] = 114
    /\ IF \E n \in DOMAIN PromptKeys : ~HasKey(pr_details[r], PromptKeys[n])
       THEN /\ Raise(r, "Prompting", "KeyError")
            /\ UNCHANGED <<line, prompt>>
       ELSE /\ prompt' = SetLocal(prompt, r, FormatPrompt(PromptInput(pr_details[r], PromptKeys)))
            /\ Goto(r, "Generating", 123)
    /\ UNCHANGED <<hostVars, fetchVars, review_str, review_dict, comment>>

\* ------------------------------------------------------------- json.loads
\* The completion text is a sequence of JSON tokens (white space dropped).
Punct(c) == <<"punct", c>>
StringTok(text) == <<"string", text>>
NumberTok(n) == <<"number", n>>
WordTok(w) == <<"word", w>>

Kind(tok) == tok[1]
Lexeme(tok) == tok[2]

IsPunct(tok, c) == Kind(tok) = "punct" /\ Lexeme(tok) = c

ParseFail == [ok |-> FALSE, val |-> Unset, rest |-> <<>>]
ParseOk(val, rest) == [ok |-> TRUE, val |-> val, rest |-> rest]

\* d[key] = val on a dict held as its items in insertion order
RECURSIVE DictSet(_, _, _)
DictSet(items, key, val) ==
    IF items = <<>> THEN <<Item(key, val)>>
    ELSE IF KeyOf(Head(items)) = key THEN <<Item(key, val)>> \o Tail(items)
    ELSE <<Head(items)>> \o DictSet(Tail(items), key, val)

RECURSIVE ParseValue(_), ParseElements(_, _), ParseMembers(_, _)
ParseValue(toks) ==
    IF toks = <<>> THEN ParseFail
    ELSE LET tok == Head(toks)
             rest == Tail(toks)
         IN CASE Kind(tok) = "string" -> ParseOk(PyStr(Lexeme(tok)), rest)
              [] Kind(tok) = "number" -> ParseOk(PyInt(Lexeme(tok)), rest)
              [] Kind(tok) = "word" ->
                    CASE Lexeme(tok) = "null" -> ParseOk(PyNone, rest)
                      [] Lexeme(tok) = "true" -> ParseOk(PyBool(TRUE), rest)
                      [] Lexeme(tok) = "false" -> ParseOk(PyBool(FALSE), rest)
                      [] OTHER -> ParseFail
              [] Kind(tok) = "punct" ->
                    CASE Lexeme(tok) = "[" ->
                            IF rest # <<>> /\ IsPunct(Head(rest), "]")
                            THEN ParseOk(PyList(<<>>), Tail(rest))
                            ELSE ParseElements(rest, <<>>)
                      [] Lexeme(tok) = "{" ->
                            IF rest # <<>> /\ IsPunct(Head(rest), "}")
                            THEN ParseOk(PyDict(<<>>), Tail(rest))
                            ELSE ParseMembers(rest, <<>>)
                      [] OTHER -> ParseFail

\* value ("," value)* "]"
ParseElements(toks, acc) ==
    LET e == ParseValue(toks)
    IN IF ~e.ok \/ e.rest = <<>> THEN ParseFail
       ELSE IF IsPunct(Head(e.rest), "]")
            THEN ParseOk(PyList(Append(acc, e.val)), Tail(e.rest))
       ELSE IF IsPunct(Head(e.rest), ",")
            THEN ParseElements(Tail(e.rest), Append(acc, e.val))
       ELSE ParseFail

\* string ":" value ("," string ":" value)* "}"
ParseMembers(toks, acc) ==
    IF Len(toks) < 2 \/ Kind(toks[1]) # "string" \/ ~IsPunct(toks[2], ":") THEN ParseFail
    ELSE LET e == ParseValue(Tail(Tail(toks)))
             items == DictSet(acc, Lexeme(toks[1]), e.val)
         IN IF ~e.ok \/ e.rest = <<>> THEN ParseFail
            ELSE IF IsPunct(Head(e.rest), "}") THEN ParseOk(PyDict(items), Tail(e.rest))
            ELSE IF IsPunct(Head(e.rest), ",") THEN ParseMembers(Tail(e.rest), items)
            ELSE ParseFail

\* A faulty variant of Loads: the leading value is decoded and what follows it is
\* ignored (raw_decode).
LoadsLeading(text) == IF ParseValue(text).ok THEN ParseValue(text) ELSE ParseFail

\* json.loads(text): the value, or JSONDecodeError (also on extra data)
Loads(text) ==
    LET p == ParseValue(text)
    IN IF p.ok /\ p.rest = <<>> THEN p ELSE ParseFail

\* lines 134-137: the dictionary built when json.loads raises JSONDecodeError
Fallback(text) ==
    PyDict(<<Item(<<"overall_assessment">>, PyStr(<<"Unable to parse review details">>)),
             Item(<<"raw_review">>, PyStr(text))>>)

\* lines 131-139
ParseReview(text) == IF Loads(text).ok THEN Loads(text).val ELSE Fallback(text)

\* ---------------------------------------------------- post_review_comment
Ok(text) == [ok |-> TRUE, exc |-> "none", text |-> text]
Raised(e) == [ok |-> FALSE, exc |-> e, text |-> <<>>]

HasItem(items, key) == \E i \in 1..Len(items) : KeyOf(items[i]) = key
ItemAt(items, key) == ValOf(items[CHOOSE i \in 1..Len(items) : KeyOf(items[i]) = key])

\* d.get(key, default)
DictGet(d, key, default) ==
    IF HasItem(ValueOf(d), key) THEN ItemAt(ValueOf(d), key) ELSE default

\* chr(10).join(x): x is iterated, and every item must be a str
JoinLines(x) ==
    CASE TypeOf(x) = "list" ->
            IF \A i \in 1..Len(ValueOf(x)) : TypeOf(ValueOf(x)[i]) = "str"
            THEN Ok(Join(<<"\n">>, [i \in 1..Len(ValueOf(x)) |-> ValueOf(ValueOf(x)[i])]))
            ELSE Raised("TypeError")
      [] TypeOf(x) = "str" -> Ok(Join(<<"\n">>, [i \in 1..Len(ValueOf(x)) |-> <<ValueOf(x)[i]>>]))
      [] TypeOf(x) = "dict" -> Ok(Join(<<"\n">>, [i \in 1..Len(ValueOf(x)) |-> KeyOf(ValueOf(x)[i])]))
      [] OTHER -> Raised("TypeError")

DefaultList(sentence) == PyList(<<PyStr(<<sentence>>)>>)

\* lines 157, 160, 163, 166: the four list sections, their keys and defaults
ListSections ==
    <<[key |-> <<"strengths">>, head |-> "\n\n### Strengths\n",
       default |-> DefaultList("No specific strengths noted")],
      [key |-> <<"concerns">>, head |-> "\n\n### Concerns\n",
       default |-> DefaultList("No specific concerns identified")],
      [key |-> <<"recommendations">>, head |-> "\n\n### Recommendations\n",
       default |-> DefaultList("No specific recommendations")],
      [key |-> <<"test_plan">>, head |-> "\n\n### Testing Suggestions\n",
       default |-> DefaultList("No specific recommendations")]>>

\* the text of one list section (lines 157, 160, 163, 166)
SectionBody(d, sec) == JoinLines(DictGet(d, sec.key, sec.default))

\* lines 151-169: the f-string, evaluated left to right
RenderComment(pr_number, d) ==
    IF TypeOf(d) # "dict" THEN Raised("AttributeError")
    ELSE LET bodies == [i \in 1..Len(ListSections) |-> SectionBody(d, ListSections[i])]
         IN IF \E i \in 1..Len(bodies) : ~bodies[i].ok
            THEN bodies[CHOOSE i \in 1..Len(bodies) :
                           ~bodies[i].ok /\ \A j \in 1..(i - 1) : bodies[j].ok]
            ELSE Ok(<<"## PR Review for #", ToString(pr_number), "\n\n### Overall Assessment\n">>
                    \o Format(DictGet(d, <<"overall_assessment">>,
                                      PyStr(<<"No overall assessment provided">>)))
                    \o Flatten([i \in 1..Len(ListSections) |->
                                   <<ListSections[i].head>> \o bodies[i].text])
                    \o <<"\n\n### Code Quality Score: ">>
                    \o Format(DictGet(d, <<"code_quality_score">>, PyStr(<<"N/A">>)))
                    \o <<"/10\n">>)

\* line 171 is commented out: pr.create_issue_comment(comment) is not called
CreateIssueComment(posted, text) == posted

\* -------------------------------------------- what the completion returns
\* json.dumps(x) as tokens: the texts a completion service that answers in
\* JSON sends
RECURSIVE Encode(_)
Encode(x) ==
    CASE TypeOf(x) = "str" -> <<StringTok(ValueOf(x))>>
      [] TypeOf(x) = "int" -> <<NumberTok(ValueOf(x))>>
      [] TypeOf(x) = "NoneType" -> <<WordTok("null")>>
      [] TypeOf(x) = "bool" -> <<WordTok(IF ValueOf(x) THEN "true" ELSE "false")>>
      [] TypeOf(x) = "list" ->
            <<Punct("[")>>
            \o Join(<<Punct(",")>>, [i \in 1..Len(ValueOf(x)) |-> Encode(ValueOf(x)[i])])
            \o <<Punct("]")>>
      [] TypeOf(x) = "dict" ->
            <<Punct("{")>>
            \o Join(<<Punct(",")>>, [i \in 1..Len(ValueOf(x)) |->
                    <<StringTok(KeyOf(ValueOf(x)[i])), Punct(":")>> \o Encode(ValOf(ValueOf(x)[i]))])
            \o <<Punct("}")>>

\* lines 65-70: the six keys the prompt asks for
Fields == <<"overall_assessment", "strengths", "concerns", "recommendations",
            "test_plan", "code_quality_score">>
ListFields == {"strengths", "concerns", "recommendations", "test_plan"}

Items == {PyStr(<<"fast">>), PyStr(<<"clear">>), PyInt(1)}
EntryLists == {PyList(xs) : xs \in SeqsUpTo(Items, MaxEntries)}

\* values a completion may put under a list-valued key
FieldValues ==
    EntryLists \cup {PyNone, PyInt(5), PyStr(<<"o", "k">>),
                     PyDict(<<Item(<<"a">>, PyInt(1))>>)}

WellTyped(field) ==
    CASE field = "overall_assessment" -> PyStr(<<"Looks good">>)
      [] field = "code_quality_score" -> PyInt(8)
      [] OTHER -> PyList(<<PyStr(<<field, " one">>), PyStr(<<field, " two">>)>>)

RECURSIVE RecordItems(_, _)
RecordItems(keys, i) ==
    IF i > Len(Fields) THEN <<>>
    ELSE (IF i \in keys THEN <<Item(<<Fields[i]>>, WellTyped(Fields[i]))>> ELSE <<>>)
         \o RecordItems(keys, i + 1)

\* a review with any subset of the six fields
SubsetRecords == {PyDict(RecordItems(keys, 1)) : keys \in SUBSET (1..Len(Fields))}

\* a review with one list-valued key, holding anything
OneFieldRecords == {PyDict(<<Item(<<f>>, v)>>) : f \in ListFields, v \in FieldValues}

OtherValues == EntryLists \cup {PyNone, PyInt(8), PyBool(TRUE), PyStr(<<"Looks good">>)}

JsonTexts == {Encode(x) : x \in SubsetRecords \cup OneFieldRecords \cup OtherValues}

\* truncated answers, answers followed by prose, prose, the empty answer
Truncated == UNION {{SubSeq(text, 1, n) : n \in 0..(Len(text) - 1)} : text \in JsonTexts}
Trailing == {text \o <<WordTok("Thanks")>> : text \in JsonTexts}
Prose == {<<WordTok("Looks"), WordTok("good")>>,
          <<Punct("{"), StringTok(<<"strengths">>), Punct(":"), Punct("["), Punct(","), Punct("]"), Punct("}")>>,
          <<Punct("{"), StringTok(<<"strengths">>), Punct(":"), Punct("["), Punct("]"), Punct(","),
            StringTok(<<"strengths">>), Punct(":"), NumberTok(3), Punct("}")>>}

Texts == JsonTexts \cup Truncated \cup Trailing \cup Prose

\* lines 123-128: self.llm answers, StrOutputParser returns its text
Generate(r) ==
    /\ r \in active /\ pc[r] = "Generating" /\ line[r] = 123
    /\ \E text \in Texts : review_str' = SetLocal(review_str, r, text)
    /\ Goto(r, "Parsing", 131)
    /\ UNCHANGED <<hostVars, fetchVars, prompt, review_dict, comment>>

\* line 123: the completion service fails (authentication, quota, network)
GenerateFails(r) ==
    /\ r \in active /\ pc[r] = "Generating" /\ line[r] = 123
    /\ Raise(r, "Generating", "APIError")
    /\ UNCHANGED <<hostVars, line, fetchVars, reviewVars>>

\* lines 131-139, and main lines 191-197: print, then post_review_comment
Parse(r) ==
    /\ r \in active /\ pc[r] = "Parsing" /\ line[r] = 131
    /\ review_dict' = SetLocal(review_dict, r, ParseReview(review_str[r]))
    /\ Goto(r, "Rendering", 148)
    /\ UNCHANGED <<hostVars, fetchVars, prompt, review_str, comment>>

\* line 148: pr = self.repo.get_pull(pr_number)
GetPullForComment(r) ==
    /\ r \in active /\ pc[r] = "Rendering" /\ line[r] = 148
    /\ Goto(r, "Rendering", 151)
    /\ UNCHANGED <<hostVars, fetchVars, reviewVars>>

\* lines 151-169
Render(r) ==
    /\ r \in active /\ pc[r] = "Rendering" /\ line[r] = 151
    /\ LET c == RenderComment(PrNumber(r), review_dict[r])
       IN IF c.ok
          THEN /\ comment' = SetLocal(comment, r, c.text)
               /\ Goto(r, "Publishing", 171)
          ELSE /\ Raise(r, "Rendering", c.exc)
               /\ UNCHANGED <<line, comment>>
    /\ UNCHANGED <<hostVars, fetchVars, prompt, review_str, review_dict>>

\* line 171, then post_review_comment and main return
Publish(r) ==
    /\ r \in active /\ pc[r] = "Publishing" /\ line[r] = 171
    /\ comments' = CreateIssueComment(comments, comment[r])
    /\ pc' = [pc EXCEPT ![r] = "Done"]
    /\ UNCHANGED <<hostVars, line, failedFrom, exc, fetchVars, reviewVars>>

\* ------------------------------------------------------------ the programs
NoRecord == [t |-> "unset"]

InitLocals ==
    /\ pc = [r \in Reviews |-> "Fetching"]
    /\ line = [r \in Reviews |-> 81]
    /\ failedFrom = [r \in Reviews |-> "none"]
    /\ exc = [r \in Reviews |-> "none"]
    /\ pr = [r \in Reviews |-> NoRecord]
    /\ changed_files = [r \in Reviews |-> <<>>]
    /\ listed1 = [r \in Reviews |-> <<>>]
    /\ listed2 = [r \in Reviews |-> <<>>]
    /\ pr_details = [r \in Reviews |-> NoRecord]
    /\ prompt = [r \in Reviews |-> <<>>]
    /\ review_str = [r \in Reviews |-> <<>>]
    /\ review_dict = [r \in Reviews |-> Unset]
    /\ comment = [r \in Reviews |-> <<>>]
    /\ comments = <<>>

Namespaces ==
    {<<>>, [repo |-> 0]}
    \cup {[repo |-> 0, pr_name |-> n] : n \in KnownPRs \cup UnknownPRs}

InitHost ==
    /\ globals \in Namespaces
    /\ hostBody \in Bodies
    /\ hostFiles \in Listings
    /\ updates = 0

\* main, lines 189-197: one review
Init ==
    /\ InitHost
    /\ active = {1}
    /\ InitLocals

\* two threads of one process, each in review_pull_request
InitConc ==
    /\ InitHost
    /\ active = Reviews
    /\ InitLocals

Next ==
    \/ \E r \in Reviews : GetPull(r)
    \/ \E r \in Reviews : ListChangedFiles(r)
    \/ \E r \in Reviews : ListFilePatches(r)
    \/ \E r \in Reviews : HostCallFails(r)
    \/ \E r \in Reviews : Prompt(r)
    \/ HostUpdate

\* The code after the prompt is built (lines 123-171), on every prompt the
\* template can give for a snapshot and every text of Texts.
InitReview ==
    /\ globals = [repo |-> 0, pr_name |-> PrNumber(1)]
    /\ hostBody = PyNone
    /\ hostFiles \in Listings
    /\ updates = 0
    /\ active = {1}
    /\ pc = [r \in Reviews |-> IF r \in active THEN "Generating" ELSE "Fetching"]
    /\ line = [r \in Reviews |-> IF r \in active THEN 123 ELSE 81]
    /\ failedFrom = [r \in Reviews |-> "none"]
    /\ exc = [r \in Reviews |-> "none"]
    /\ pr = [r \in Reviews |-> IF r \in active THEN HostPull(hostBody) ELSE NoRecord]
    /\ changed_files = [r \in Reviews |-> IF r \in active THEN FileNames(hostFiles) ELSE <<>>]
    /\ listed1 = [r \in Reviews |-> IF r \in active THEN hostFiles ELSE <<>>]
    /\ listed2 = listed1
    /\ pr_details = [r \in Reviews |->
            IF r \in active THEN PrDetails(pr[r], changed_files[r], listed2[r]) ELSE NoRecord]
    /\ prompt = [r \in Reviews |->
            IF r \in active
            THEN FormatPrompt(PromptInput(pr_details[r], [PromptKeys EXCEPT !.pr_author = "author"]))
            ELSE <<>>]
    /\ review_str = [r \in Reviews |-> <<>>]
    /\ review_dict = [r \in Reviews |-> Unset]
    /\ comment = [r \in Reviews |-> <<>>]
    /\ comments = <<>>

NextReview ==
    \/ \E r \in Reviews : Generate(r)
    \/ \E r \in Reviews : GenerateFails(r)
    \/ \E r \in Reviews : Parse(r)
    \/ \E r \in Reviews : GetPullForComment(r)
    \/ \E r \in Reviews : HostCallFails(r)
    \/ \E r \in Reviews : Render(r)
    \/ \E r \in Reviews : Publish(r)

Spec == Init /\ [][Next]_vars
SpecConc == InitConc /\ [][Next]_vars
SpecReview == InitReview /\ [][NextReview]_vars
SpecAll == (Init \/ InitReview) /\ [][Next \/ NextReview]_vars

\* ================================================================= claims
\* Reading a text back: the first place of an atom, the text between two
\* atoms, the blocks between separators.
IndexOf(text, atom) ==
    IF \E i \in 1..Len(text) : text[i] = atom
    THEN CHOOSE i \in 1..Len(text) : text[i] = atom /\ \A j \in 1..(i - 1) : text[j] # atom
    ELSE 0

After(text, atom) == SubSeq(text, IndexOf(text, atom) + 1, Len(text))

Between(text, from, to) ==
    LET rest == After(text, from)
    IN IF IndexOf(rest, to) = 0 THEN rest ELSE SubSeq(rest, 1, IndexOf(rest, to) - 1)

RECURSIVE SplitOn(_, _)
SplitOn(text, sep) ==
    IF text = <<>> THEN <<>>
    ELSE IF IndexOf(text, sep) = 0 THEN <<text>>
    ELSE <<SubSeq(text, 1, IndexOf(text, sep) - 1)>> \o SplitOn(After(text, sep), sep)

\* get_pr_details returned to review r
HasSnapshot(r) == r \in active /\ pc[r] # "Fetching" /\ failedFrom[r] # "Fetching"

\* the blocks of the file_patches text of review r
Blocks(r) == SplitOn(pr_details[r].file_patches, "\n\n")

\* C1: Failed is entered only from Fetching and from Generating.
C1_FailedOnlyFromFetchingOrGenerating ==
    \A r \in Reviews : pc[r] = "Failed" => failedFrom[r] \in {"Fetching", "Generating"}

\* The texts of Texts that are not JSON: cut short, followed by prose, or prose.
MalformedTexts ==
    Truncated \cup Trailing
    \cup {<<WordTok("Looks"), WordTok("good")>>,
          <<Punct("{"), StringTok(<<"strengths">>), Punct(":"), Punct("["), Punct(","),
            Punct("]"), Punct("}")>>}

C3_RenderingIsTotal ==
    \A r \in Reviews :
        ~(pc[r] = "Failed" /\ failedFrom[r] = "Rendering"
          /\ exc[r] \in {"AttributeError", "TypeError"})

\* the section of the comment of review r under the i-th list heading
SectionText(r, i) ==
    Between(comment[r], ListSections[i].head,
            IF i < Len(ListSections) THEN ListSections[i + 1].head
            ELSE "\n\n### Code Quality Score: ")

\* C4: in the comment, a list section whose field is absent or an empty list
\* holds the default sentence of the field; a section whose field is a list of
\* texts holds the entries joined by a newline.
C4_ListSections ==
    \A r \in Reviews : pc[r] \in {"Publishing", "Done"} =>
        \A i \in 1..Len(ListSections) :
            LET d == ValueOf(review_dict[r])
                key == ListSections[i].key
                absent == ~HasItem(d, key)
                x == ItemAt(d, key)
            IN /\ absent => SectionText(r, i) = ValueOf(ValueOf(ListSections[i].default)[1])
               /\ (~absent /\ TypeOf(x) = "list" /\ ValueOf(x) = <<>>) =>
                     SectionText(r, i) = ValueOf(ValueOf(ListSections[i].default)[1])
               /\ (~absent /\ TypeOf(x) = "list" /\ ValueOf(x) # <<>>) =>
                     SectionText(r, i) =
                        Join(<<"\n">>, [j \in 1..Len(ValueOf(x)) |-> ValueOf(ValueOf(x)[j])])

\* the host sent no diff for the file: no patch attribute, or None
NoDiff(file) == "patch" \notin DOMAIN file \/ TypeOf(file.patch) = "NoneType"

\* C5: in the snapshot, the patch part of the block of a file without a diff
\* is the sentinel "No patch available".
C5_NoDiffGivesSentinel ==
    \A r \in Reviews : HasSnapshot(r) =>
        \A i \in 1..Len(listed2[r]) :
            NoDiff(listed2[r][i]) =>
                /\ i <= Len(Blocks(r))
                /\ After(Blocks(r)[i], "\nPatch:\n") = <<"No patch available">>

\* C6: file_patches is one block per listed file, in the order of the listing,
\* each `File: <path>\nStatus: <status>\nPatch:\n<patch>`, joined by a blank line.
C6_OneBlockPerFile ==
    \A r \in Reviews : HasSnapshot(r) =>
        /\ Len(Blocks(r)) = Len(listed2[r])
        /\ (listed2[r] = <<>>) = (pr_details[r].file_patches = <<>>)
        /\ \A i \in 1..Len(Blocks(r)) :
              LET b == Blocks(r)[i]
              IN /\ Head(b) = "File: "
                 /\ Between(b, "File: ", "\nStatus: ") = listed2[r][i].filename
                 /\ Between(b, "\nStatus: ", "\nPatch:\n") = listed2[r][i].status
                 /\ IndexOf(b, "\nPatch:\n") > 0
                 /\ After(b, "\nPatch:\n") # <<>>
        /\ Join(<<"\n\n">>, Blocks(r)) = pr_details[r].file_patches

C6_Witness ==
    \E r \in Reviews :
        /\ HasSnapshot(r)
        /\ Len(listed2[r]) = MaxFiles
        /\ listed2[r][1].filename # HostFile(1).filename

\* C7: a review that failed posted no comment, and a comment is on the host
\* only when a review went through every stage.
C7_NoCommentUnlessDone ==
    /\ (\E r \in Reviews : pc[r] = "Failed") => comments = <<>>
    /\ comments # <<>> => \E r \in Reviews : pc[r] = "Done"

C7_Witness ==
    \E r \in Reviews : pc[r] = "Failed" /\ exc[r] = "GithubException" /\ failedFrom[r] = "Fetching"

\* C8: once the host returned the pull request and its files, the review does
\* not fail unless the completion service fails, and the prompt carries the
\* author of the snapshot.
C8_FetchedReviewDoesNotFail ==
    \A r \in Reviews : HasSnapshot(r) =>
        /\ pc[r] = "Failed" => failedFrom[r] = "Generating"
        /\ pc[r] \notin {"Prompting", "Failed"} =>
              Between(prompt[r], "\nAuthor: ", "\nFiles Changed: ") = ValueOf(pr_details[r].author)

\* the names a review's invocation owns
Locals(r) == <<pr[r], changed_files[r], pr_details[r], prompt[r], review_str[r],
               review_dict[r], comment[r], failedFrom[r], exc[r]>>

\* C9: a review's own names change only in its own steps, and what it holds
\* of the pull request is what the host answered to its own calls.
C9_ReviewsIndependent ==
    [][\A r \in Reviews :
          /\ (pc'[r] = pc[r] /\ line'[r] = line[r]) => Locals(r)' = Locals(r)
          /\ changed_files'[r] = FileNames(listed1'[r])
          /\ HasSnapshot(r)' => pr_details'[r].changed_files = FileNames(listed1'[r])]_vars

C9_Witness ==
    /\ \A r \in Reviews : HasSnapshot(r)
    /\ \E r, q \in Reviews : listed1[r] # listed1[q]

\* C10: the changed_files of the snapshot are the paths of the blocks of its
\* file_patches, in order.
C10_SnapshotConsistent ==
    \A r \in Reviews : HasSnapshot(r) =>
        /\ Len(pr_details[r].changed_files) = Len(Blocks(r))
        /\ \A i \in 1..Len(Blocks(r)) :
              pr_details[r].changed_files[i] = Between(Blocks(r)[i], "File: ", "\nStatus: ")

====
